---- MODULE Spec2Model ----
(***************************************************************************)
(* Model of miden-tx's TransactionExecutor (src/miden-tx/src/executor/     *)
(* mod.rs).  The executor owns a TransactionComplier and a DataStore and   *)
(* drives load_account, load_account_interface, compile_note_script and    *)
(* execute_transaction.  Every public method takes `&mut self`, so one     *)
(* call is in progress at a time; `pc` is the position of that call.       *)
(*                                                                         *)
(* The DataStore trait, the TransactionComplier, PreparedTransaction,      *)
(* TransactionWitness and the VM processor live outside executor/mod.rs;   *)
(* they are modelled at their boundary.                                    *)
(***************************************************************************)
EXTENDS Integers, Sequences, FiniteSets, TLC

\* ------------------------------------------------------------------ bounds
\* block references a caller may name
MaxBlock == 2
\* note origins, and the length of a note_origins list
MaxNotes == 1
\* advice accesses the VM may record in one execution
MaxAdvice == 1
\* length of a note script's target list
MaxTargets == 2
\* number of advice recorders whose use is followed
MaxRecorders == 2

\* two accounts and two procedure digests; interfaces, modules and scripts
\* hold at most one procedure
AccountIds == {1, 2}
BlockRefs == 1..MaxBlock
Digests == {1, 2}
NoteOriginIds == 1..MaxNotes

SeqsUpTo(S, n) == UNION {[1..k -> S] : k \in 0..n}

\* Vec<Digest>: an account interface
ProcLists == SeqsUpTo(Digests, 1)
\* &[NoteOrigin]
OriginLists == SeqsUpTo(NoteOriginIds, MaxNotes)

\* ------------------------------------------------------------ Option/Result
None == [kind |-> "None"]
Some(v) == [kind |-> "Some", val |-> v]
Ok(v) == [kind |-> "Ok", val |-> v]
Err(e, cause) == [kind |-> "Err", err |-> e, cause |-> cause]
Pending == [kind |-> "Pending"]

IsOk(r) == r.kind = "Ok"
IsErr(r) == r.kind = "Err"
IsErrOf(r, e) == r.kind = "Err" /\ r.err = e

\* ------------------------------------------------------------------ ASTs
\* A procedure / instruction is a digest-bearing body; 0 is a body that the
\* assembler rejects.
AstItems == Digests \cup {0}
IsValidAst(s) == \A i \in DOMAIN s : s[i] # 0
\* ModuleAst: the account code source (a list of procedure bodies)
ModuleAsts == SeqsUpTo(AstItems, 1)
\* ProgramAst: a note / transaction script (a list of called procedures)
ProgramAsts == SeqsUpTo(AstItems, 1)

Range(s) == {s[i] : i \in DOMAIN s}

\* digest of a procedure body (a permutation of the digest space, not the
\* identity)
ProcDigest(p) == Cardinality(Digests) + 1 - p

\* digest of a sequence of naturals (fold with a positional mix)
RECURSIVE SeqDigest(_)
SeqDigest(s) ==
    IF s = <<>> THEN 1
    ELSE (SeqDigest(SubSeq(s, 1, Len(s) - 1)) * 31 + s[Len(s)] + 7) % 1009

\* ---------------------------------------------------------------- DataStore
\* trait DataStore: the backend is generic (`D: DataStore`), so each call
\* may fail or return any value consistent with the request.  The backend
\* is read at one of its snapshots: the account's nonce and the header's
\* timestamp are those of the snapshot.
StoreSnapshots == {0, 1}

DataStore_get_account_code(account_id) ==
    {Err("DataStoreError", "AccountNotFound")} \cup {Ok(m) : m \in ModuleAsts}

DataStore_get_transaction_data(account_id, block_ref, note_origins) ==
    {Err("DataStoreError", "DataNotFound")} \cup
    {Ok([account |-> [id |-> account_id, nonce |-> v],
         block_header |-> [block_num |-> block_ref, timestamp |-> v],
         block_chain |-> [tip |-> block_ref],
         notes |-> [i \in DOMAIN note_origins |-> [origin |-> note_origins[i]]]])
       : v \in StoreSnapshots}

\* --------------------------------------------------- hashes and commitments
Account_id(account) == account.id
Account_hash(account) == SeqDigest(<<account.id, account.nonce>>)
BlockHeader_hash(header) == SeqDigest(<<header.block_num, header.timestamp, 3>>)
ConsumedNotes_commitment(notes) ==
    SeqDigest([i \in DOMAIN notes |-> notes[i].origin])

\* ------------------------------------------------------ TransactionComplier
Compiler_new == [account_procs |-> [a \in AccountIds |-> None]]

AccountCode_new(account_id, module) ==
    IF IsValidAst(module)
    THEN Ok([id |-> account_id,
             module |-> module,
             procedures |-> [i \in DOMAIN module |-> ProcDigest(module[i])]])
    ELSE Err("AccountError", "AssemblyError")

Compiler_load_account(c, account_id, module) ==
    LET code == AccountCode_new(account_id, module) IN
    IF IsErr(code)
    THEN [compiler |-> c, result |-> Err("TransactionComplierError", code.err)]
    ELSE [compiler |->
             [c EXCEPT !.account_procs[account_id] = Some(code.val.procedures)],
          result |-> code]

Compiler_load_account_interface(c, account_id, procedures) ==
    [compiler |-> [c EXCEPT !.account_procs[account_id] = Some(procedures)],
     result |-> c.account_procs[account_id]]

\* NoteTarget: an account whose interface is registered, or an explicit
\* procedure list
TargetAccountId(id) == [kind |-> "AccountId", id |-> id]
TargetProcedures(procs) == [kind |-> "Procedures", procs |-> procs]
NoteTargets ==
    {TargetAccountId(a) : a \in AccountIds} \cup
    {TargetProcedures(p) : p \in ProcLists}

TargetInterface(c, target) ==
    IF target.kind = "AccountId"
    THEN c.account_procs[target.id]
    ELSE Some(target.procs)

\* every procedure the script calls is exposed by the interface
ScriptCompatible(ast, procs) == Range(ast) \subseteq Range(procs)

TargetSatisfied(c, ast, target) ==
    /\ TargetInterface(c, target).kind = "Some"
    /\ ScriptCompatible(ast, TargetInterface(c, target).val)

Compiler_compile_note_script(c, ast, targets) ==
    IF ~IsValidAst(ast)
    THEN Err("TransactionComplierError", "CompileNoteScriptFailed")
    ELSE IF \E i \in DOMAIN targets : ~TargetSatisfied(c, ast, targets[i])
    THEN Err("TransactionComplierError", "NoteIncompatibleWithAccountInterface")
    ELSE Ok([hash |-> SeqDigest(ast), code |-> ast])

\* tx_script_root: None when no transaction script is supplied
Compiler_compile_transaction(c, account_id, notes, tx_script) ==
    IF c.account_procs[account_id].kind = "None"
    THEN Err("TransactionComplierError", "AccountInterfaceNotFound")
    ELSE IF tx_script.kind = "Some" /\ ~IsValidAst(tx_script.val)
    THEN Err("TransactionComplierError", "CompileTxScriptFailed")
    ELSE IF tx_script.kind = "Some" /\
            ~ScriptCompatible(tx_script.val, c.account_procs[account_id].val)
    THEN Err("TransactionComplierError", "TxScriptIncompatibleWithAccountInterface")
    ELSE Ok([tx_program |->
                [account_id |-> account_id,
                 notes |-> ConsumedNotes_commitment(notes),
                 script |-> IF tx_script.kind = "Some" THEN tx_script.val ELSE <<>>],
             tx_script_root |->
                IF tx_script.kind = "Some" THEN Some(SeqDigest(tx_script.val))
                ELSE None])

\* ------------------------------------------------------ PreparedTransaction
PreparedTransaction_new(account, block_header, block_chain, notes, tx_script_root, tx_program) ==
    [account |-> account,
     block_header |-> block_header,
     block_chain |-> block_chain,
     consumed_notes |-> notes,
     tx_script_root |-> tx_script_root,
     tx_program |-> tx_program]

PreparedTransaction_stack_inputs(tx) ==
    <<Account_id(tx.account), Account_hash(tx.account),
      ConsumedNotes_commitment(tx.consumed_notes),
      BlockHeader_hash(tx.block_header)>>

PreparedTransaction_advice_provider_inputs(tx) ==
    [account |-> tx.account,
     block_header |-> tx.block_header,
     block_chain |-> tx.block_chain,
     notes |-> tx.consumed_notes]

\* --------------------------------------------- RecAdviceProvider, processor
RecAdviceProvider_from(inputs) == [kind |-> "Recorder", inputs |-> inputs, log |-> 0]
Moved == [kind |-> "Moved"]
RecAdviceProvider_into_proof(recorder) ==
    [inputs |-> recorder.inputs, log |-> recorder.log]

\* processor::execute(program, stack_inputs, &mut advice_provider): the VM
\* either completes or faults; in both cases it may have recorded advice
\* accesses in the provider before returning.
Processor_execute(program, stack_inputs, recorder) ==
    {[result |-> r, recorder |-> [recorder EXCEPT !.log = n]]
       : r \in {Ok("ExecutionTrace"), Err("ExecutionError", "FailedAssertion")},
         n \in 0..MaxAdvice}

TransactionWitness_new(account_id, initial_account_hash, block_hash, consumed_notes_hash, tx_script_root, program, advice_witness) ==
    [account_id |-> account_id,
     initial_account_hash |-> initial_account_hash,
     block_hash |-> block_hash,
     consumed_notes_hash |-> consumed_notes_hash,
     tx_script_root |-> tx_script_root,
     program |-> program,
     advice_witness |-> advice_witness]

\* ====================================================== TransactionExecutor
VARIABLES
    compiler,         \* self.compiler
    pc,               \* position of the call in progress ("idle": none)
    call,             \* the arguments of the current / last call
    result,           \* what the current / last call returned (Pending: not yet)
    fetched,          \* what the DataStore returned to this call
    compiled,         \* what the compiler returned to this call
    transaction,      \* the PreparedTransaction of this call
    advice_recorder,  \* the RecAdviceProvider of this call
    recorders,        \* the recorders made so far: how many, which one this call
                      \* holds, which were given to the VM, which were finalized
    vm_result,        \* what processor::execute returned to this call
    vm_call,          \* what this call passed to processor::execute, and the
                      \* recorder as the VM left it
    advice_proof,     \* advice_recorder.into_proof()
    trace,            \* the collaborator calls this call has made, in order
    pre_compiler,     \* self.compiler when the current call started
    prev,             \* the call that returned before the current one
    registry,         \* per account id, the interface its callers last
                      \* registered in calls that have returned
    interface_calls,  \* the account ids for which a load_account_interface
                      \* call has returned
    active,           \* the operations that have been entered and have not
                      \* returned, in the order they were entered
    observe           \* which operation's returned calls `prev` and
                      \* `interface_calls` keep a record of (fixed per run)

vars == <<compiler, pc, call, result, fetched, compiled, transaction,
          advice_recorder, recorders, vm_result, vm_call, advice_proof, trace, pre_compiler, prev,
          registry, interface_calls, active, observe>>

NoCall == [op |-> "none"]

NoRecorders == [created |-> 0, current |-> 0, executed |-> <<>>, finalized |-> <<>>]

\* the record of recorders is kept when the run follows them
FollowRecorders(r) == IF observe = "advice_recorder" THEN r ELSE recorders

\* Result::map_err(f) followed by `?`
MapErr(r, e) == IF IsOk(r) THEN r ELSE Err(e, r.cause)

\* TransactionExecutor::new
InitObserving(op) ==
    /\ observe = op
    /\ active = <<>>
    /\ compiler = Compiler_new
    /\ pc = "idle"
    /\ call = NoCall
    /\ result = Pending
    /\ fetched = None
    /\ compiled = None
    /\ transaction = None
    /\ advice_recorder = None
    /\ recorders = NoRecorders
    /\ vm_result = None
    /\ vm_call = None
    /\ advice_proof = None
    /\ trace = <<>>
    /\ pre_compiler = Compiler_new
    /\ prev = NoCall
    /\ registry = [a \in AccountIds |-> None]
    /\ interface_calls = {}

\* what is remembered of a completed call once the next one starts: a
\* load_account with the code it was given and what it returned, a successful
\* execute_transaction with its Witness's account id and block hash
Summary(c, f, r) ==
    IF c.op = "load_account"
    THEN [op |-> c.op, account_id |-> c.account_id, fetched |-> f, result |-> r]
    ELSE IF c.op = "execute_transaction" /\ IsOk(r)
    THEN [op |-> c.op, ok |-> TRUE,
          account_id |-> c.account_id, block_ref |-> c.block_ref,
          witness_account_id |-> r.val.account_id,
          witness_block_hash |-> r.val.block_hash]
    ELSE [op |-> c.op, ok |-> FALSE]

\* the interface a returning call has registered for its account id
Registered(reg, c, r) ==
    IF c.op = "load_account_interface"
    THEN [reg EXCEPT ![c.account_id] = Some(c.procedures)]
    ELSE IF c.op = "load_account" /\ IsOk(r)
    THEN [reg EXCEPT ![c.account_id] = Some(r.val.procedures)]
    ELSE reg

\* variant: the executor is handed out while a call is in progress
Exclusive_shared == TRUE

\* `&mut self`: the executor is borrowed by one call at a time
Exclusive == pc = "idle"

\* the callers: when the run compares a returned execute_transaction call
\* with the one that follows, the call that follows repeats its arguments
CallerMay(c) == (observe = "outcome" /\ prev # NoCall) => c = prev.call

\* the Data Store is deterministic for a given (account_id, block_ref,
\* note_origins): to the repeated call it returns what it returned before
StoreMay(r) == (observe = "outcome" /\ prev # NoCall) => r = prev.fetched

\* the VM is a function of its inputs: run again on the inputs of the compared
\* call it returns the same result and leaves the same recorder
VmMay(program, stack_inputs, recorder, out) ==
    (/\ observe = "outcome" /\ prev # NoCall
     /\ prev.vm_call # None
     /\ prev.vm_call.val.program = program
     /\ prev.vm_call.val.stack_inputs = stack_inputs
     /\ prev.vm_call.val.recorder_in = recorder) =>
        /\ out.result = prev.vm_result
        /\ out.recorder = prev.vm_call.val.recorder_out

\* a caller enters a `&mut self` method
Enter(c) ==
    /\ Exclusive
    /\ CallerMay(c)
    /\ call' = c
    /\ active' = Append(active, c.op)
    /\ UNCHANGED <<result, fetched, compiled, transaction, advice_recorder, recorders,
                   vm_result, vm_call, advice_proof, trace, pre_compiler, prev, registry,
                   interface_calls, observe>>

\* all that one execute_transaction call was given and gave back
Outcome ==
    [op |-> call.op, call |-> call, compiler |-> pre_compiler, fetched |-> fetched,
     vm_result |-> vm_result, vm_call |-> vm_call, result |-> result]

\* what may be kept of the returning call: its summary when the run keeps a
\* record of this operation; when the run compares execute_transaction
\* calls, either nothing or the whole outcome, to be compared with the call
\* that follows
Remembered ==
    IF call.op = observe
    THEN {Summary(call, fetched, result)}
    ELSE IF observe = "outcome" /\ call.op = "execute_transaction"
    THEN {NoCall, Outcome}
    ELSE {NoCall}

\* the method returns: its result goes to the caller and its locals are
\* dropped
Return ==
    /\ pc = "done"
    /\ pc' = "idle"
    /\ prev' \in Remembered
    /\ active' = IF active = <<>> THEN active ELSE SubSeq(active, 1, Len(active) - 1)
    /\ registry' = Registered(registry, call, result)
    /\ interface_calls' = IF call.op = observe /\ call.op = "load_account_interface"
                          THEN interface_calls \cup {call.account_id}
                          ELSE interface_calls
    /\ pre_compiler' = compiler
    /\ call' = NoCall
    /\ result' = Pending
    /\ fetched' = None
    /\ compiled' = None
    /\ transaction' = None
    /\ advice_recorder' = None
    /\ recorders' = [recorders EXCEPT !.current = 0]
    /\ vm_result' = None
    /\ vm_call' = None
    /\ advice_proof' = None
    /\ trace' = <<>>
    /\ UNCHANGED <<compiler, observe>>

\* ------------------------------------------------------------- load_account
\* variant: the fetch error is wrapped in the other variant
load_account_fetch_err_as_load(r) == MapErr(r, "LoadAccountFailed")
load_account_fetch_err(r) == MapErr(r, "FetchAccountCodeFailed")
\* variant: the compiler's error is wrapped in the other variant
load_account_load_err_as_fetch(r) == MapErr(r, "FetchAccountCodeFailed")
load_account_load_err(r) == MapErr(r, "LoadAccountFailed")

CallLoadAccount ==
    \E account_id \in AccountIds :
        /\ Enter([op |-> "load_account", account_id |-> account_id])
        /\ pc' = "la_get_account_code"
        /\ UNCHANGED compiler

LoadAccountGetCode ==
    /\ pc = "la_get_account_code"
    /\ \E r \in DataStore_get_account_code(call.account_id) :
        LET account_code == load_account_fetch_err(r) IN
        /\ fetched' = r
        /\ trace' = Append(trace, "get_account_code")
        /\ IF IsErr(account_code)
           THEN /\ result' = account_code
                /\ pc' = "done"
           ELSE /\ result' = Pending
                /\ pc' = "la_compiler_load_account"
    /\ UNCHANGED <<compiler, call, compiled, transaction, advice_recorder, recorders,
                   vm_result, vm_call, advice_proof, pre_compiler, prev, registry,
                   interface_calls, active, observe>>

\* variant: an account that is already registered is refused
LoadAccountCompile_once ==
    /\ pc = "la_compiler_load_account"
    /\ LET out == IF compiler.account_procs[call.account_id] = None
                  THEN Compiler_load_account(compiler, call.account_id, fetched.val)
                  ELSE [compiler |-> compiler,
                        result |-> Err("TransactionComplierError", "AlreadyLoaded")]
       IN
        /\ compiler' = out.compiler
        /\ compiled' = out.result
        /\ result' = load_account_load_err(out.result)
    /\ trace' = Append(trace, "compiler.load_account")
    /\ pc' = "done"
    /\ UNCHANGED <<call, fetched, transaction, advice_recorder, recorders, vm_result, vm_call,
                   advice_proof, pre_compiler, prev, registry,
                   interface_calls, active, observe>>

LoadAccountCompile ==
    /\ pc = "la_compiler_load_account"
    /\ LET out == Compiler_load_account(compiler, call.account_id, fetched.val) IN
        /\ compiler' = out.compiler
        /\ compiled' = out.result
        /\ result' = load_account_load_err(out.result)
    /\ trace' = Append(trace, "compiler.load_account")
    /\ pc' = "done"
    /\ UNCHANGED <<call, fetched, transaction, advice_recorder, recorders, vm_result, vm_call,
                   advice_proof, pre_compiler, prev, registry,
                   interface_calls, active, observe>>

\* --------------------------------------------------- load_account_interface
\* variant: the compiler's return value is dropped
load_account_interface_discard(c, account_id, procedures) ==
    [compiler |-> Compiler_load_account_interface(c, account_id, procedures).compiler,
     result |-> None]

load_account_interface(c, account_id, procedures) ==
    Compiler_load_account_interface(c, account_id, procedures)

LoadAccountInterface ==
    \E account_id \in AccountIds, procedures \in ProcLists :
        /\ Exclusive
        /\ CallerMay([op |-> "load_account_interface"])
        /\ active' = Append(active, "load_account_interface")
        /\ call' = [op |-> "load_account_interface", account_id |-> account_id,
                    procedures |-> procedures]
        /\ LET out == load_account_interface(compiler, account_id, procedures) IN
            /\ compiler' = out.compiler
            /\ result' = out.result
        /\ trace' = <<"compiler.load_account_interface">>
        /\ pc' = "done"
        /\ UNCHANGED <<fetched, compiled, transaction, advice_recorder, recorders, vm_result, vm_call,
                       advice_proof, pre_compiler, prev, registry,
                       interface_calls, observe>>

\* ------------------------------------------------------ compile_note_script
\* variant: only the first declared target is passed on
compile_note_script_first_target(c, note_script_ast, target_account_procs) ==
    MapErr(Compiler_compile_note_script(
               c, note_script_ast,
               SubSeq(target_account_procs, 1,
                      IF Len(target_account_procs) > 1 THEN 1
                      ELSE Len(target_account_procs))),
           "CompileNoteScriptFailed")

compile_note_script(c, note_script_ast, target_account_procs) ==
    MapErr(Compiler_compile_note_script(c, note_script_ast, target_account_procs),
           "CompileNoteScriptFailed")

TargetLists == SeqsUpTo(NoteTargets, MaxTargets)

CompileNoteScript ==
    \E note_script_ast \in ProgramAsts, targets \in TargetLists :
        /\ Exclusive
        /\ CallerMay([op |-> "compile_note_script"])
        /\ active' = Append(active, "compile_note_script")
        /\ call' = [op |-> "compile_note_script", note_script_ast |-> note_script_ast,
                    target_account_procs |-> targets]
        /\ result' = compile_note_script(compiler, note_script_ast, targets)
        /\ trace' = <<"compiler.compile_note_script">>
        /\ pc' = "done"
        /\ UNCHANGED <<compiler, fetched, compiled, transaction, advice_recorder, recorders,
                       vm_result, vm_call, advice_proof, pre_compiler, prev, registry,
                       interface_calls, observe>>

\* ------------------------------------------------------ execute_transaction
\* the statements of prepare_transaction and execute_transaction, in
\* program order
ExecuteStages ==
    <<"et_get_transaction_data", "et_compile_transaction",
      "et_prepared_transaction", "et_advice_recorder", "et_processor_execute",
      "et_into_proof", "et_witness">>

StageIndex(stage) == CHOOSE i \in DOMAIN ExecuteStages : ExecuteStages[i] = stage

\* variant: the Witness is assembled right after the VM returns
NextStage_skip_proof(stage) ==
    IF StageIndex(stage) = Len(ExecuteStages) THEN "done"
    ELSE IF stage = "et_processor_execute" THEN "et_witness"
    ELSE ExecuteStages[StageIndex(stage) + 1]

\* variant: after the proof is taken the call waits for something that never
\* comes
NextStage_stall(stage) ==
    IF StageIndex(stage) = Len(ExecuteStages) THEN "done"
    ELSE IF stage = "et_into_proof" THEN "et_stalled"
    ELSE ExecuteStages[StageIndex(stage) + 1]

\* where control goes when the statement at `stage` completes successfully
NextStage(stage) ==
    IF StageIndex(stage) = Len(ExecuteStages) THEN "done"
    ELSE ExecuteStages[StageIndex(stage) + 1]

prepare_transaction_fetch_err(r) == MapErr(r, "FetchTransactionDataFailed")
\* variant: the compiler's error is wrapped in the data-store variant
prepare_transaction_compile_err_as_fetch(r) == MapErr(r, "FetchTransactionDataFailed")
prepare_transaction_compile_err(r) == MapErr(r, "CompileTransactionError")
\* variant: the VM's result is discarded without `?`
execute_transaction_vm_err_discarded(r) == Ok("discarded")
execute_transaction_vm_err(r) == MapErr(r, "ExecuteTransactionProgramFailed")

prepare_transaction_new(data, prog) ==
    PreparedTransaction_new(data.account, data.block_header, data.block_chain,
                            data.notes, prog.tx_script_root, prog.tx_program)

\* variant: the two Digest arguments account hash and block hash are swapped
execute_transaction_witness_swapped(tx, proof) ==
    TransactionWitness_new(Account_id(tx.account),
                           BlockHeader_hash(tx.block_header),
                           Account_hash(tx.account),
                           ConsumedNotes_commitment(tx.consumed_notes),
                           tx.tx_script_root,
                           tx.tx_program,
                           proof)

\* variant: the consumed-notes commitment is passed as the block hash
execute_transaction_witness_notes_as_block(tx, proof) ==
    TransactionWitness_new(Account_id(tx.account),
                           Account_hash(tx.account),
                           ConsumedNotes_commitment(tx.consumed_notes),
                           ConsumedNotes_commitment(tx.consumed_notes),
                           tx.tx_script_root,
                           tx.tx_program,
                           proof)

\* variant: the account hash is passed as the consumed-notes commitment
execute_transaction_witness_hash_as_notes(tx, proof) ==
    TransactionWitness_new(Account_id(tx.account),
                           Account_hash(tx.account),
                           BlockHeader_hash(tx.block_header),
                           Account_hash(tx.account),
                           tx.tx_script_root,
                           tx.tx_program,
                           proof)

execute_transaction_witness(tx, proof) ==
    TransactionWitness_new(Account_id(tx.account),
                           Account_hash(tx.account),
                           BlockHeader_hash(tx.block_header),
                           ConsumedNotes_commitment(tx.consumed_notes),
                           tx.tx_script_root,
                           tx.tx_program,
                           proof)

TxScripts == {None} \cup {Some(a) : a \in ProgramAsts}

ETFrame == <<compiler, call, pre_compiler, prev, registry, interface_calls, active, observe>>

CallExecuteTransaction ==
    \E account_id \in AccountIds, block_ref \in BlockRefs,
       note_origins \in OriginLists, tx_script \in TxScripts :
        /\ Enter([op |-> "execute_transaction", account_id |-> account_id,
                  block_ref |-> block_ref, note_origins |-> note_origins,
                  tx_script |-> tx_script])
        /\ observe = "advice_recorder" => recorders.created < MaxRecorders
        /\ pc' = ExecuteStages[1]
        /\ UNCHANGED compiler

\* variant: a failed fetch is tried a second time
ETGetTransactionData_retry ==
    /\ pc = "et_get_transaction_data"
    /\ \E r \in DataStore_get_transaction_data(call.account_id, call.block_ref,
                                               call.note_origins) :
        /\ fetched' = r
        /\ IF IsErr(prepare_transaction_fetch_err(r))
           THEN IF trace = <<>>
                THEN /\ result' = Pending
                     /\ pc' = pc
                ELSE /\ result' = prepare_transaction_fetch_err(r)
                     /\ pc' = "done"
           ELSE /\ result' = Pending
                /\ pc' = NextStage(pc)
    /\ trace' = Append(trace, "get_transaction_data")
    /\ UNCHANGED <<ETFrame, compiled, transaction, advice_recorder, recorders, vm_result, vm_call,
                   advice_proof>>

\* prepare_transaction: self.data_store.get_transaction_data(..)?
ETGetTransactionData ==
    /\ pc = "et_get_transaction_data"
    /\ \E r \in DataStore_get_transaction_data(call.account_id, call.block_ref,
                                               call.note_origins) :
        /\ StoreMay(r)
        /\ fetched' = r
        /\ IF IsErr(prepare_transaction_fetch_err(r))
           THEN /\ result' = prepare_transaction_fetch_err(r)
                /\ pc' = "done"
           ELSE /\ result' = Pending
                /\ pc' = NextStage(pc)
    /\ trace' = Append(trace, "get_transaction_data")
    /\ UNCHANGED <<ETFrame, compiled, transaction, advice_recorder, recorders, vm_result, vm_call,
                   advice_proof>>

\* variant: a compilation that fails for want of a registered interface leaves
\* an empty interface registered for the account
ETCompileTransaction_register_on_miss ==
    /\ pc = "et_compile_transaction"
    /\ compiler' = IF compiler.account_procs[call.account_id] = None
                   THEN Compiler_load_account_interface(compiler, call.account_id,
                                                        <<>>).compiler
                   ELSE compiler
    /\ LET r == Compiler_compile_transaction(compiler, call.account_id,
                                             fetched.val.notes, call.tx_script) IN
        /\ compiled' = r
        /\ IF IsErr(prepare_transaction_compile_err(r))
           THEN /\ result' = prepare_transaction_compile_err(r)
                /\ pc' = "done"
           ELSE /\ result' = Pending
                /\ pc' = NextStage(pc)
    /\ trace' = Append(trace, "compile_transaction")
    /\ UNCHANGED <<call, pre_compiler, prev, registry, interface_calls, active, observe,
                   fetched, transaction, advice_recorder, recorders, vm_result,
                   vm_call, advice_proof>>

\* variant: an account without a registered interface gets an empty one
\* registered before its transaction is compiled
ETCompileTransaction_autoload ==
    /\ pc = "et_compile_transaction"
    /\ compiler' = IF compiler.account_procs[call.account_id] = None
                   THEN Compiler_load_account_interface(compiler, call.account_id,
                                                        <<>>).compiler
                   ELSE compiler
    /\ LET r == Compiler_compile_transaction(compiler', call.account_id,
                                             fetched.val.notes, call.tx_script) IN
        /\ compiled' = r
        /\ IF IsErr(prepare_transaction_compile_err(r))
           THEN /\ result' = prepare_transaction_compile_err(r)
                /\ pc' = "done"
           ELSE /\ result' = Pending
                /\ pc' = NextStage(pc)
    /\ trace' = Append(trace, "compile_transaction")
    /\ UNCHANGED <<call, pre_compiler, prev, registry, interface_calls, active, observe,
                   fetched, transaction, advice_recorder, recorders, vm_result,
                   vm_call, advice_proof>>

\* prepare_transaction: self.compiler.compile_transaction(..)?
ETCompileTransaction ==
    /\ pc = "et_compile_transaction"
    /\ LET r == Compiler_compile_transaction(compiler, call.account_id,
                                             fetched.val.notes, call.tx_script) IN
        /\ compiled' = r
        /\ IF IsErr(prepare_transaction_compile_err(r))
           THEN /\ result' = prepare_transaction_compile_err(r)
                /\ pc' = "done"
           ELSE /\ result' = Pending
                /\ pc' = NextStage(pc)
    /\ trace' = Append(trace, "compile_transaction")
    /\ UNCHANGED <<ETFrame, fetched, transaction, advice_recorder, recorders, vm_result, vm_call,
                   advice_proof>>

\* prepare_transaction: Ok(PreparedTransaction::new(..)), then `?` in
\* execute_transaction
ETPreparedTransaction ==
    /\ pc = "et_prepared_transaction"
    /\ transaction' = Some(prepare_transaction_new(fetched.val, compiled.val))
    /\ trace' = Append(trace, "PreparedTransaction::new")
    /\ pc' = NextStage(pc)
    /\ UNCHANGED <<ETFrame, result, fetched, compiled, advice_recorder, recorders, vm_result, vm_call,
                   advice_proof>>

\* variant: the recorder of the previous execution is kept and taken again
ETAdviceRecorder_reuse ==
    /\ pc = "et_advice_recorder"
    /\ advice_recorder' =
          RecAdviceProvider_from(
              PreparedTransaction_advice_provider_inputs(transaction.val))
    /\ recorders' = FollowRecorders(
          IF recorders.created = 0
          THEN [recorders EXCEPT !.created = 1, !.current = 1]
          ELSE [recorders EXCEPT !.current = recorders.created])
    /\ trace' = Append(trace, "RecAdviceProvider::from")
    /\ pc' = NextStage(pc)
    /\ UNCHANGED <<ETFrame, result, fetched, compiled, transaction, vm_result, vm_call,
                   advice_proof>>

\* let mut advice_recorder = transaction.advice_provider_inputs().into()
ETAdviceRecorder ==
    /\ pc = "et_advice_recorder"
    /\ advice_recorder' =
          RecAdviceProvider_from(
              PreparedTransaction_advice_provider_inputs(transaction.val))
    /\ recorders' = FollowRecorders(
          [recorders EXCEPT !.created = @ + 1, !.current = recorders.created + 1])
    /\ trace' = Append(trace, "RecAdviceProvider::from")
    /\ pc' = NextStage(pc)
    /\ UNCHANGED <<ETFrame, result, fetched, compiled, transaction, vm_result, vm_call,
                   advice_proof>>

\* processor::execute(tx_program, stack_inputs, &mut advice_recorder)?
ETProcessorExecute ==
    /\ pc = "et_processor_execute"
    /\ \E out \in Processor_execute(transaction.val.tx_program,
                                    PreparedTransaction_stack_inputs(transaction.val),
                                    advice_recorder) :
        /\ VmMay(transaction.val.tx_program,
                 PreparedTransaction_stack_inputs(transaction.val),
                 advice_recorder, out)
        /\ vm_result' = out.result
        /\ vm_call' = Some([program |-> transaction.val.tx_program,
                             stack_inputs |->
                                 PreparedTransaction_stack_inputs(transaction.val),
                             recorder_in |-> advice_recorder,
                             recorder_out |-> out.recorder])
        /\ advice_recorder' = out.recorder
        /\ recorders' = FollowRecorders(
              [recorders EXCEPT !.executed = Append(@, recorders.current)])
        /\ IF IsErr(execute_transaction_vm_err(out.result))
           THEN /\ result' = execute_transaction_vm_err(out.result)
                /\ pc' = "done"
           ELSE /\ result' = Pending
                /\ pc' = NextStage(pc)
    /\ trace' = Append(trace, "processor::execute")
    /\ UNCHANGED <<ETFrame, fetched, compiled, transaction, advice_proof>>

\* variant: the proof is taken from a recorder made anew from the advice
\* inputs, not from the one the VM wrote to
ETIntoProof_fresh ==
    /\ pc = "et_into_proof"
    /\ advice_proof' = RecAdviceProvider_into_proof(
                           RecAdviceProvider_from(
                               PreparedTransaction_advice_provider_inputs(
                                   transaction.val)))
    /\ advice_recorder' = Moved
    /\ recorders' = FollowRecorders(
          [recorders EXCEPT !.finalized = Append(@, recorders.current)])
    /\ trace' = Append(trace, "into_proof")
    /\ pc' = NextStage(pc)
    /\ UNCHANGED <<ETFrame, result, fetched, compiled, transaction, vm_result, vm_call>>

\* let advice_proof = advice_recorder.into_proof()
ETIntoProof ==
    /\ pc = "et_into_proof"
    /\ advice_proof' = RecAdviceProvider_into_proof(advice_recorder)
    /\ advice_recorder' = Moved
    /\ recorders' = FollowRecorders(
          [recorders EXCEPT !.finalized = Append(@, recorders.current)])
    /\ trace' = Append(trace, "into_proof")
    /\ pc' = NextStage(pc)
    /\ UNCHANGED <<ETFrame, result, fetched, compiled, transaction, vm_result, vm_call>>

\* Ok(TransactionWitness::new(..))
ETWitness ==
    /\ pc = "et_witness"
    /\ result' = Ok(execute_transaction_witness(transaction.val, advice_proof))
    /\ trace' = Append(trace, "TransactionWitness::new")
    /\ pc' = NextStage(pc)
    /\ UNCHANGED <<ETFrame, fetched, compiled, transaction, advice_recorder, recorders,
                   vm_result, vm_call, advice_proof>>

\* ---------------------------------------------------------------- the system
Next ==
    \/ CallLoadAccount
    \/ LoadAccountGetCode
    \/ LoadAccountCompile
    \/ LoadAccountInterface
    \/ CompileNoteScript
    \/ CallExecuteTransaction
    \/ ETGetTransactionData
    \/ ETCompileTransaction
    \/ ETPreparedTransaction
    \/ ETAdviceRecorder
    \/ ETProcessorExecute
    \/ ETIntoProof
    \/ ETWitness
    \/ Return

Init == InitObserving("none")

\* the executor and its callers
Spec == Init /\ [][Next]_vars

\* the same, keeping a record of the load_account call that returned last
SpecLoadAccount == InitObserving("load_account") /\ [][Next]_vars

\* the same, keeping a record of the account ids load_account_interface was
\* called for
SpecLoadAccountInterface == InitObserving("load_account_interface") /\ [][Next]_vars

\* the same, keeping a record of the execute_transaction call that returned
\* last
SpecExecuteTransaction == InitObserving("execute_transaction") /\ [][Next]_vars

\* the same, comparing an execute_transaction call with the call that
\* follows it and repeats its arguments
SpecOutcome == InitObserving("outcome") /\ [][Next]_vars

\* the executor when every call into the Data Store, the Compiler and the VM
\* returns and the straight-line code between the calls runs on
ExecuteProgress ==
    /\ WF_vars(ETGetTransactionData)
    /\ WF_vars(ETCompileTransaction)
    /\ WF_vars(ETPreparedTransaction)
    /\ WF_vars(ETAdviceRecorder)
    /\ WF_vars(ETProcessorExecute)
    /\ WF_vars(ETIntoProof)
    /\ WF_vars(ETWitness)

SpecTermination == Init /\ [][Next]_vars /\ ExecuteProgress

\* the same, following the advice recorders of up to MaxRecorders executions
SpecAdviceRecorder == InitObserving("advice_recorder") /\ [][Next]_vars

TypeOK ==
    /\ pc \in {"idle", "done", "la_get_account_code", "la_compiler_load_account"}
                \cup Range(ExecuteStages)
    /\ \A a \in AccountIds :
          \/ compiler.account_procs[a] = None
          \/ /\ compiler.account_procs[a].kind = "Some"
             /\ compiler.account_procs[a].val \in ProcLists

\* ================================================================ properties
ExecDone == pc = "done" /\ call.op = "execute_transaction"
LoadDone == pc = "done" /\ call.op = "load_account"

\* C1: when the fetch, the compilation and the VM execution of an
\* execute_transaction call all succeed, the call returns a Witness whose
\* account id is the account_id argument and whose block hash is the hash of
\* the block header get_transaction_data returned to this call.
C1_WitnessBindsAccountAndBlock ==
    (ExecDone /\ IsOk(fetched) /\ IsOk(compiled) /\ IsOk(vm_result)) =>
        /\ IsOk(result)
        /\ result.val.account_id = call.account_id
        /\ result.val.block_hash = BlockHeader_hash(fetched.val.block_header)

C1_Witness ==
    /\ ExecDone /\ IsOk(fetched) /\ IsOk(compiled) /\ IsOk(vm_result)
    /\ IsOk(result)
    /\ result.val.block_hash # result.val.initial_account_hash

\* C2: when the VM processor returns an error the call returns
\* ExecuteTransactionProgramFailed, no proof is extracted and no Witness is
\* assembled; in every state a Witness exists for a call only if that call's
\* VM execution completed successfully.
C2_NoWitnessWithoutSuccessfulExecution ==
    /\ (call.op = "execute_transaction" /\ IsErr(vm_result)) =>
          /\ pc = "done"
          /\ IsErrOf(result, "ExecuteTransactionProgramFailed")
          /\ advice_proof = None
          /\ trace[Len(trace)] = "processor::execute"
    /\ (call.op = "execute_transaction" /\ IsOk(result)) => IsOk(vm_result)

C2_Witness ==
    /\ ExecDone /\ IsErr(vm_result)
    /\ IsErrOf(result, "ExecuteTransactionProgramFailed")
    /\ advice_recorder.log > 0

\* C3: a failure of get_transaction_data surfaces as
\* FetchTransactionDataFailed and a failure of compile_transaction (after a
\* successful fetch) as CompileTransactionError, each carrying the
\* collaborator's error; in both cases the call has returned without creating
\* an advice recorder, invoking the VM or producing a Witness.
PrepareFailed ==
    call.op = "execute_transaction" /\ (IsErr(fetched) \/ IsErr(compiled))

C3_PrepareFailuresPropagate ==
    /\ (call.op = "execute_transaction" /\ IsErr(fetched)) =>
          /\ IsErrOf(result, "FetchTransactionDataFailed")
          /\ result.cause = fetched.cause
          /\ compiled = None
    /\ (call.op = "execute_transaction" /\ IsOk(fetched) /\ IsErr(compiled)) =>
          /\ IsErrOf(result, "CompileTransactionError")
          /\ result.cause = compiled.cause
    /\ PrepareFailed =>
          /\ pc = "done"
          /\ transaction = None
          /\ advice_recorder = None
          /\ vm_result = None
          /\ advice_proof = None
          /\ "processor::execute" \notin Range(trace)

C3_Witness ==
    /\ ExecDone /\ IsOk(fetched) /\ IsErr(compiled)
    /\ IsErrOf(result, "CompileTransactionError")

\* C4: when get_account_code fails, load_account returns
\* FetchAccountCodeFailed, the compiler's load_account is not invoked and the
\* compiler is as it was when the call started.
C4_FetchFailureLeavesCompiler ==
    (call.op = "load_account" /\ IsErr(fetched)) =>
        /\ pc = "done"
        /\ IsErrOf(result, "FetchAccountCodeFailed")
        /\ trace = <<"get_account_code">>
        /\ compiled = None
        /\ compiler = pre_compiler

C4_Witness ==
    /\ LoadDone /\ IsErr(fetched)
    /\ \E a \in AccountIds : compiler.account_procs[a] # None

\* C5: load_account returns LoadAccountFailed exactly when the Data Store
\* supplied the code and the compiler rejected it, and returns the compiled
\* AccountCode exactly when both succeeded; in that case the compiler's entry
\* for account_id holds that code's procedures and no other entry changed.
C5_LoadAccountOutcome ==
    LoadDone =>
        /\ IsErrOf(result, "LoadAccountFailed") <=> (IsOk(fetched) /\ IsErr(compiled))
        /\ IsOk(result) <=> (IsOk(fetched) /\ IsOk(compiled))
        /\ IsOk(result) =>
              /\ result = compiled
              /\ result.val.id = call.account_id
              /\ compiler.account_procs[call.account_id] =
                     Some(result.val.procedures)
              /\ \A a \in AccountIds \ {call.account_id} :
                     compiler.account_procs[a] = pre_compiler.account_procs[a]
        /\ ~IsOk(result) => compiler = pre_compiler

C5_Witness ==
    /\ LoadDone /\ IsOk(result)
    /\ pre_compiler.account_procs[call.account_id] # None
    /\ pre_compiler.account_procs[call.account_id] #
           compiler.account_procs[call.account_id]

\* C6 (amended): load_account_interface returns None when no interface has
\* been registered for the account id before, by load_account_interface or by
\* a successful load_account, and otherwise exactly the interface last
\* registered for that id, which it overwrites with `procedures`;
\* registrations for other ids neither affect the returned value nor are
\* affected.
InterfaceDone == pc = "done" /\ call.op = "load_account_interface"

\* C6 as stated: the first load_account_interface call for an account id
\* returns None, every later one the interface registered before it.
C6_FirstInterfaceCallReturnsNone ==
    InterfaceDone =>
        IF call.account_id \in interface_calls
        THEN result = registry[call.account_id]
        ELSE result = None

C6_InterfaceReturnsPrevious ==
    InterfaceDone =>
        /\ result = registry[call.account_id]
        /\ compiler.account_procs[call.account_id] = Some(call.procedures)
        /\ \A a \in AccountIds \ {call.account_id} :
              compiler.account_procs[a] = registry[a]

C6_Witness ==
    /\ InterfaceDone
    /\ result.kind = "Some"
    /\ result.val # call.procedures
    /\ \E a \in AccountIds \ {call.account_id} :
          registry[a] # None /\ registry[a] # result

\* C7: a load_account call that directly follows a load_account call for the
\* same account id, and is given the same code by the Data Store, returns
\* the same result as the first and leaves the compiler as the first left it.
Reloaded ==
    /\ LoadDone
    /\ prev.op = "load_account"
    /\ prev.account_id = call.account_id
    /\ IsOk(fetched)
    /\ prev.fetched = fetched

C7_LoadAccountIdempotent ==
    Reloaded =>
        /\ result = prev.result
        /\ compiler = pre_compiler

C7_Witness == Reloaded /\ IsOk(result) /\ Len(result.val.procedures) > 0

\* C8: compile_note_script returns a NoteScript (of the whole script) only
\* if the script assembles and every declared target has an interface that
\* exposes every procedure the script calls; otherwise it returns
\* CompileNoteScriptFailed and nothing else.
NoteScriptDone == pc = "done" /\ call.op = "compile_note_script"

TargetOk(target, ast) ==
    \/ /\ target.kind = "Procedures"
       /\ \A i \in DOMAIN ast : \E j \in DOMAIN target.procs : target.procs[j] = ast[i]
    \/ /\ target.kind = "AccountId"
       /\ registry[target.id] # None
       /\ \A i \in DOMAIN ast :
             \E j \in DOMAIN registry[target.id].val : registry[target.id].val[j] = ast[i]

C8_NoteScriptAllTargets ==
    NoteScriptDone =>
        /\ IsOk(result) <=>
              /\ 0 \notin Range(call.note_script_ast)
              /\ \A i \in DOMAIN call.target_account_procs :
                    TargetOk(call.target_account_procs[i], call.note_script_ast)
        /\ IsOk(result) => result.val.code = call.note_script_ast
        /\ ~IsOk(result) => IsErrOf(result, "CompileNoteScriptFailed")
        /\ compiler = pre_compiler

C8_Witness ==
    /\ NoteScriptDone
    /\ IsErrOf(result, "CompileNoteScriptFailed")
    /\ Len(call.target_account_procs) = 2
    /\ TargetOk(call.target_account_procs[1], call.note_script_ast)
    /\ ~TargetOk(call.target_account_procs[2], call.note_script_ast)

\* C9: the collaborator calls of one execute_transaction call are made in
\* the order get_transaction_data, compile_transaction,
\* PreparedTransaction::new, RecAdviceProvider::from, processor::execute,
\* into_proof, TransactionWitness::new, each at most once, and a stage is
\* entered only after the one before it has completed successfully.
StageOrder ==
    <<"get_transaction_data", "compile_transaction", "PreparedTransaction::new",
      "RecAdviceProvider::from", "processor::execute", "into_proof",
      "TransactionWitness::new">>

C9_StagesInOrder ==
    call.op = "execute_transaction" =>
        /\ Len(trace) <= Len(StageOrder)
        /\ trace = SubSeq(StageOrder, 1, Len(trace))
        /\ Len(trace) >= 2 => IsOk(fetched)
        /\ Len(trace) >= 3 => IsOk(compiled) /\ transaction # None
        /\ Len(trace) >= 4 => advice_recorder # None
        /\ Len(trace) >= 6 => IsOk(vm_result) /\ advice_proof # None
                                /\ advice_recorder = Moved
        /\ Len(trace) >= 7 => IsOk(result) /\ pc = "done"
        /\ IsOk(result) => Len(trace) = 7
        /\ (pc \notin {"idle", "done"}) =>
              /\ result = Pending
              /\ pc = ExecuteStages[Len(trace) + 1]

C9_Witness == ExecDone /\ trace = StageOrder

\* C10: when a successful execute_transaction call directly follows a
\* successful one for the same account id and a different block_ref, the two
\* Witnesses have the same account id and different block hashes.
SecondExecution ==
    /\ ExecDone /\ IsOk(result)
    /\ prev.op = "execute_transaction"
    /\ prev.ok
    /\ prev.account_id = call.account_id
    /\ prev.block_ref # call.block_ref

C10_SequentialWitnessesDiffer ==
    SecondExecution =>
        /\ result.val.account_id = prev.witness_account_id
        /\ result.val.block_hash # prev.witness_block_hash

C10_Witness == SecondExecution


\* C11: a successful execute_transaction call with an empty note_origins list
\* and no transaction script returns a Witness whose consumed-notes commitment
\* is the commitment of the empty note set and whose tx_script_root is None.
EmptyNotesCommitment == ConsumedNotes_commitment(<<>>)

NoNotesNoScript ==
    /\ ExecDone /\ IsOk(result)
    /\ call.note_origins = <<>>
    /\ call.tx_script = None

C11_EmptyNotesNoScript ==
    NoNotesNoScript =>
        /\ result.val.consumed_notes_hash = EmptyNotesCommitment
        /\ result.val.tx_script_root = None
        /\ \A o \in OriginLists \ {<<>>} :
              ConsumedNotes_commitment([i \in DOMAIN o |-> [origin |-> o[i]]])
                  # result.val.consumed_notes_hash

C11_Witness == NoNotesNoScript /\ call.block_ref = MaxBlock


\* C12: on success every field of the Witness comes from the one
\* PreparedTransaction this call built and executed: the account hash is that
\* of the account as fetched, the consumed-notes commitment is that of the
\* notes the Data Store returned, tx_script_root is the root compile_transaction
\* returned, the program is the program that was passed to the VM, and the
\* advice proof is the finalization of the recorder the VM wrote to, which was
\* made from this transaction's advice inputs.
C12_WitnessFromExecutedTransaction ==
    (ExecDone /\ IsOk(result)) =>
        /\ vm_call # None
        /\ result.val.initial_account_hash = Account_hash(fetched.val.account)
        /\ result.val.consumed_notes_hash =
              ConsumedNotes_commitment(fetched.val.notes)
        /\ result.val.tx_script_root = compiled.val.tx_script_root
        /\ result.val.program = vm_call.val.program
        /\ vm_call.val.program = compiled.val.tx_program
        /\ vm_call.val.stack_inputs =
              PreparedTransaction_stack_inputs(transaction.val)
        /\ vm_call.val.recorder_in =
              RecAdviceProvider_from(
                  [account |-> fetched.val.account,
                   block_header |-> fetched.val.block_header,
                   block_chain |-> fetched.val.block_chain,
                   notes |-> fetched.val.notes])
        /\ result.val.advice_witness =
              RecAdviceProvider_into_proof(vm_call.val.recorder_out)

C12_Witness ==
    /\ ExecDone /\ IsOk(result)
    /\ vm_call.val.recorder_out.log > 0
    /\ call.note_origins # <<>>
    /\ call.tx_script # None


\* C13: no call to a collaborator is repeated. Within one execute_transaction
\* call get_transaction_data, compile_transaction and the VM's execute are
\* each made at most once, within one load_account call get_account_code and
\* the Compiler's load_account are each made at most once, and the first
\* collaborator call that fails is the last call the operation makes.
CollaboratorCalls ==
    {"get_transaction_data", "compile_transaction", "processor::execute",
     "get_account_code", "compiler.load_account"}

Count(s, x) == Cardinality({i \in DOMAIN s : s[i] = x})

C13_NoRetries ==
    /\ \A x \in CollaboratorCalls : Count(trace, x) <= 1
    /\ (call.op = "execute_transaction" /\ IsErr(fetched)) =>
          pc = "done" /\ trace = <<"get_transaction_data">>
    /\ (call.op = "execute_transaction" /\ IsErr(compiled)) =>
          pc = "done" /\ trace = <<"get_transaction_data", "compile_transaction">>
    /\ (call.op = "execute_transaction" /\ IsErr(vm_result)) =>
          /\ pc = "done"
          /\ trace[Len(trace)] = "processor::execute"
          /\ Count(trace, "get_transaction_data") = 1
          /\ Count(trace, "compile_transaction") = 1
    /\ (call.op = "load_account" /\ IsErr(fetched)) =>
          pc = "done" /\ trace = <<"get_account_code">>
    /\ (call.op = "load_account" /\ IsErr(compiled)) =>
          pc = "done" /\ trace = <<"get_account_code", "compiler.load_account">>

C13_Witness == pc = "done" /\ IsErr(compiled) /\ Len(trace) = 2


\* C14: an advice recorder is used once. Every execute_transaction call that
\* reaches the execution stage makes a new recorder from the advice inputs of
\* the transaction it prepared, gives it to one VM execution, and finalizes it
\* at most once: once when the call succeeds, never when the VM fails. No
\* recorder is given to the VM by two calls, and none is used after its proof
\* was taken.
NoRepeats(s) == \A i, j \in DOMAIN s : s[i] = s[j] => i = j

C14_RecorderSingleUse ==
    /\ NoRepeats(recorders.executed)
    /\ NoRepeats(recorders.finalized)
    /\ Range(recorders.finalized) \subseteq Range(recorders.executed)
    /\ Range(recorders.executed) \subseteq 1..recorders.created
    /\ Count(trace, "RecAdviceProvider::from") <= 1
    /\ Count(trace, "processor::execute") <= 1
    /\ Count(trace, "into_proof") <= 1
    /\ recorders.current # 0 =>
          /\ call.op = "execute_transaction"
          /\ recorders.current = recorders.created
          /\ Count(trace, "RecAdviceProvider::from") = 1
    /\ vm_call # None =>
          /\ vm_call.val.recorder_in =
                RecAdviceProvider_from(
                    PreparedTransaction_advice_provider_inputs(transaction.val))
          /\ recorders.current # 0
          /\ recorders.executed[Len(recorders.executed)] = recorders.current
    /\ advice_proof # None =>
          /\ advice_recorder = Moved
          /\ pc \in {"et_witness", "done"}
          /\ recorders.finalized[Len(recorders.finalized)] = recorders.current
    /\ (ExecDone /\ IsOk(result)) =>
          recorders.current \in Range(recorders.finalized)
    /\ (ExecDone /\ IsErr(vm_result)) =>
          /\ advice_proof = None
          /\ recorders.current \notin Range(recorders.finalized)
          /\ recorders.current \in Range(recorders.executed)

C14_Witness ==
    /\ ExecDone /\ IsOk(result)
    /\ recorders.current = MaxRecorders
    /\ recorders.executed = <<1, MaxRecorders>>
    /\ recorders.finalized = <<MaxRecorders>>


\* C15: a registered interface stays until it is replaced. execute_transaction,
\* at every stage and whatever its outcome, and compile_note_script leave the
\* registered interface of every account as it was; load_account_interface and
\* load_account change at most the entry of their own account id; so what was
\* registered last for an id is what the Compiler holds for it when the next
\* call starts and what the next load_account_interface for it returns.
C15_InterfacePersists ==
    /\ \A a \in AccountIds : pre_compiler.account_procs[a] = registry[a]
    /\ call.op \in {"none", "execute_transaction", "compile_note_script"} =>
          compiler = pre_compiler
    /\ call.op \in {"load_account", "load_account_interface"} =>
          \A a \in AccountIds \ {call.account_id} :
              compiler.account_procs[a] = registry[a]
    /\ InterfaceDone =>
          /\ result = registry[call.account_id]
          /\ compiler.account_procs[call.account_id] = Some(call.procedures)

C15_Witness ==
    /\ ExecDone
    /\ \A a \in AccountIds : registry[a] # None
    /\ \E a, b \in AccountIds : registry[a] # registry[b]


\* C16: execute_transaction is deterministic. When a call is followed by a
\* call with the same arguments, the Data Store returns to both the same
\* data and the VM, where it runs in both, returns the same result and leaves
\* the same recorder, then the second call starts from the same Compiler
\* state, passes the same inputs to the VM and has the same outcome: an equal
\* Witness or an error of the same kind.
Repeated == observe = "outcome" /\ prev # NoCall /\ ExecDone

SameStoreAndVm ==
    /\ prev.fetched = fetched
    /\ (prev.vm_call # None /\ vm_call # None) =>
          /\ prev.vm_result = vm_result
          /\ prev.vm_call.val.recorder_out = vm_call.val.recorder_out

C16_ExecuteDeterministic ==
    (Repeated /\ SameStoreAndVm) =>
        /\ call = prev.call
        /\ pre_compiler = prev.compiler
        /\ compiler = prev.compiler
        /\ (prev.vm_call = None) <=> (vm_call = None)
        /\ vm_call # None =>
              /\ vm_call.val.program = prev.vm_call.val.program
              /\ vm_call.val.stack_inputs = prev.vm_call.val.stack_inputs
              /\ vm_call.val.recorder_in = prev.vm_call.val.recorder_in
        /\ result.kind = prev.result.kind
        /\ IsOk(result) => result.val = prev.result.val
        /\ IsErr(result) => result.err = prev.result.err

C16_Witness ==
    /\ Repeated /\ SameStoreAndVm
    /\ IsOk(result)
    /\ result.val.advice_witness.log > 0


\* C17: the operations on one executor are serialized. At most one operation
\* is in progress at any time, the stages of an operation belong to the one
\* call that was entered, and the compile stage of execute_transaction runs
\* with no load_account between its fetch and its registration: it sees the
\* Compiler as the last returned call left it.
LoadAccountStages == {"la_get_account_code", "la_compiler_load_account"}

ExecInProgress == call.op = "execute_transaction" /\ pc # "idle" /\ pc # "done"

OneOutcome ==
    /\ result # Pending
    /\ IsErr(fetched) <=> IsErrOf(result, "FetchTransactionDataFailed")
    /\ (IsOk(fetched) /\ IsErr(compiled)) <=> IsErrOf(result, "CompileTransactionError")
    /\ (IsOk(fetched) /\ IsOk(compiled) /\ IsErr(vm_result)) <=>
          IsErrOf(result, "ExecuteTransactionProgramFailed")
    /\ (IsOk(fetched) /\ IsOk(compiled) /\ IsOk(vm_result)) <=> IsOk(result)
    /\ IsOk(result) \/ result.err \in {"FetchTransactionDataFailed",
                                      "CompileTransactionError",
                                      "ExecuteTransactionProgramFailed"}

LeavesOnReturnOnly ==
    /\ (pc = "et_get_transaction_data" /\ pc' # pc) =>
          fetched = None /\ fetched' # None
    /\ (pc = "et_processor_execute" /\ pc' # pc) =>
          vm_result = None /\ vm_result' # None
    /\ (ExecInProgress /\ pc' # pc) => call' = call /\ pc' # "idle"

C18_ExecuteTerminates ==
    /\ [](ExecDone => OneOutcome)
    /\ [][LeavesOnReturnOnly]_vars
    /\ ExecInProgress ~> ExecDone

C18_Witness ==
    /\ ExecDone /\ OneOutcome
    /\ IsErrOf(result, "ExecuteTransactionProgramFailed")
    /\ vm_call.val.recorder_out.log > 0

====
